---- MODULE Spec2Model ----
(***************************************************************************)
(* StacksBlockBuilder (src/chainstate/stacks/miner.rs): the assembler of   *)
(* one tenure's anchored block and microblock stream.                      *)
(*                                                                         *)
(* One builder, the ClarityTx it obtained from epoch_begin, and the files  *)
(* of the chainstate directory are the state.  Hashes are modelled         *)
(* symbolically: a hash of x is a tagged tuple holding x, so two hashes    *)
(* are equal exactly when their pre-images are.  The Clarity VM's trie is  *)
(* the sequence of the operations applied to it, and its root hash is the  *)
(* hash of that sequence.                                                  *)
(***************************************************************************)
EXTENDS Integers, Sequences, FiniteSets, TLC

\* ------------------------------------------------------------------ bounds
\* MAX_EPOCH_SIZE (core), scaled down so that the budget is reached.
MAX_EPOCH_SIZE == 5
\* header.serialize().len(): the same for every header (fixed-width fields).
HeaderLen == 2
\* u16::max_value(), scaled down so that the stream limit is reached.
U16_MAX == 1
\* the longest parent microblock stream found in the staging store
MaxParentMblocks == 1
\* blocks a reward ages before it is granted, and the window after them
MINER_REWARD_MATURITY == 1
MINER_REWARD_WINDOW == 1
\* the tenures of a chain
MaxTenures == 6

\* ------------------------------------------------------------ transactions
AnchorModes == {"OnChainOnly", "OffChainOnly", "Any"}

\* A transaction: its txid (what tx.txid() hashes to), its serialized
\* length and its anchor mode
Tx(id, l, m) == [txid |-> <<"txid", id>>, len |-> l, anchor_mode |-> m]

\* the transactions offered to the builder: one of each anchor mode, and a
\* longer one
StacksTransaction ==
    { Tx(1, 1, "OnChainOnly"), Tx(2, 1, "OffChainOnly"), Tx(3, 1, "Any"),
      Tx(4, 2, "Any") }

\* tx.serialize().len()
TxLen(tx) == tx.len

RECURSIVE SumLen(_)
SumLen(s) == IF s = <<>> THEN 0 ELSE TxLen(Head(s)) + SumLen(Tail(s))

\* self.txs.iter().map(|tx| tx.txid().as_bytes().to_vec()).collect()
TxidVecs(s) == [i \in 1..Len(s) |-> s[i].txid]

\* ------------------------------------------------------------------ hashes
\* Sha512Trunc256Sum([0u8; 32])
ZeroSha512 == <<"zero">>
\* TrieHash([0u8; 32])
ZeroTrieHash == <<"zerotrie">>
EMPTY_MICROBLOCK_PARENT_HASH == <<"empty_microblock_parent">>
MINER_BLOCK_BURN_HEADER_HASH == <<"miner_burn_sentinel">>
MINER_BLOCK_HEADER_HASH == <<"miner_block_sentinel">>

\* MerkleTree::<Sha512Trunc256Sum>::new(&[]).root()
EmptyMerkleRoot == <<"merkle", <<>>>>
\* MerkleTree::<Sha512Trunc256Sum>::new(&txid_vecs).root()
MerkleRoot(txids) == IF txids = <<>> THEN EmptyMerkleRoot ELSE <<"merkle", txids>>

\* StacksBlockHeader::block_hash / StacksMicroblockHeader::block_hash
BlockHash(hdr) == <<"block_hash", hdr>>
\* StacksBlockHeader::make_index_block_hash(burn, block)
MakeIndexBlockHash(burn, block) == <<"index_block_hash", burn, block>>
\* ClarityTx::get_root_hash: the root of the in-flight trie
RootHash(trie) == <<"root", trie>>

\* -------------------------------------------------------------------- keys
\* the microblock private key handed to the constructor
MicroblockPrivkey == "sk_miner"
\* StacksPublicKey::from_private, then set_compressed(true)
CompressedPubkey(sk) == <<"pubkey", sk, "compressed">>
\* Hash160::from_data(&pubk.to_bytes())
Hash160(pubk) == <<"hash160", pubk>>

\* ----------------------------------------------------------- parent tips
\* Option<T>: None is the empty sequence, Some(x) the sequence <<x>>.
None == <<>>
Some(x) == <<x>>
Unwrap(opt) == opt[1]

\* the i-th microblock of the parent's staging stream: its hash and sequence
ParentMblock(i) == [hash |-> <<"parent_mblock", i>>, sequence |-> i - 1]
ParentStream(n) == [i \in 1..n |-> ParentMblock(i)]

\* StacksHeaderInfo of the genesis parent built by first()
GenesisChainTip ==
    [ anchored_header  |-> <<"genesis_header">>,
      microblock_tail  |-> None,
      block_height     |-> 0,
      index_root       |-> ZeroTrieHash,
      burn_header_hash |-> <<"genesis_burn">> ]

\* the parent tips from_parent() is called with: a parent that streamed
\* microblocks
ParentChainTips ==
    { [ anchored_header  |-> <<"parent_header">>,
        microblock_tail  |-> t,
        block_height     |-> 1,
        index_root       |-> <<"parent_root">>,
        burn_header_hash |-> <<"parent_burn">> ] :
      t \in {Some(ParentMblock(1))} }

\* StacksBlockHeader::from_parent_empty: parent-derived fields filled, both
\* roots zeroed
FromParentEmpty(parent_header, microblock_tail, pubkh) ==
    [ parent_block               |-> BlockHash(parent_header),
      parent_microblock          |-> IF microblock_tail = None
                                     THEN EMPTY_MICROBLOCK_PARENT_HASH
                                     ELSE Unwrap(microblock_tail).hash,
      parent_microblock_sequence |-> IF microblock_tail = None
                                     THEN 0
                                     ELSE Unwrap(microblock_tail).sequence,
      tx_merkle_root             |-> ZeroSha512,
      state_index_root           |-> ZeroTrieHash,
      microblock_pubkey_hash     |-> pubkh ]

\* MessageSignature::empty()
EmptySignature == <<"unsigned">>

\* StacksMicroblockHeader::first_unsigned(parent_block_hash, tx_merkle_root)
FirstUnsigned(parent_block_hash, tx_merkle_root) ==
    [ sequence       |-> 0,
      prev_block     |-> parent_block_hash,
      tx_merkle_root |-> tx_merkle_root,
      signature      |-> EmptySignature ]

\* StacksMicroblockHeader::from_parent_unsigned: None when the parent's
\* sequence is u16::max_value()
FromParentUnsigned(parent_header, tx_merkle_root) ==
    IF parent_header.sequence >= U16_MAX
    THEN None
    ELSE Some([ sequence       |-> parent_header.sequence + 1,
                prev_block     |-> BlockHash(parent_header),
                tx_merkle_root |-> tx_merkle_root,
                signature      |-> EmptySignature ])

\* StacksMicroblockHeader::sign: the signature covers the header with its
\* signature field zeroed
Sign(hdr, sk) ==
    [hdr EXCEPT !.signature =
        <<"sig", sk, [hdr EXCEPT !.signature = EmptySignature]>>]

\* StacksMicroblockHeader::verify: recover the signer from the signature
\* over the header pre-image, hash its compressed key, compare
Verify(hdr, pubkh) ==
    /\ hdr.signature # EmptySignature
    /\ hdr.signature[3] = [hdr EXCEPT !.signature = EmptySignature]
    /\ Hash160(CompressedPubkey(hdr.signature[2])) = pubkh

\* ------------------------------------------------------------- VM contract
\* The Clarity trie in flight is the sequence of what was applied to it.
\* StacksChainState::process_transaction, on success
ProcessTransaction(trie, tx) == Append(trie, <<"tx", tx.txid>>)
\* StacksChainState::process_microblocks_transactions, on success
ProcessMicroblocksTransactions(trie, mblocks) ==
    trie \o [i \in 1..Len(mblocks) |-> <<"mblock", mblocks[i].hash>>]
\* StacksChainState::process_matured_miner_rewards, on success
ProcessMaturedMinerRewards(trie, rewards) == Append(trie, <<"rewards", rewards>>)

\* the miners of the test chains
Miners == {"miner", "miner_2"}
\* the payout of one matured block to the miner that won it
MinerReward(m) == <<m, 500000000>>
\* the payout set find_mature_miner_rewards resolves when one has matured
MaturedRewards == <<"miner", 500000000>>

\* ------------------------------------------------------------ trie files
\* ClarityTx::get_block_path(burn, block): the trie file of a block
BlockPath(burn, block) == <<"blocks", MakeIndexBlockHash(burn, block)>>
\* PathBuf::set_file_name(format!("{}.mined", index_block_hash.to_hex()))
MinedPath(block_path, index_block_hash) == <<"blocks", index_block_hash, ".mined">>

\* ------------------------------------------------------------------- state
VARIABLES
    lifecycle,              \* where the builder is: "Fresh" (no ClarityTx yet),
                            \* "Open" (ClarityTx outstanding), "Finished"
                            \* (consumed by epoch_finish), "Aborted" (panic),
                            \* "Crashed" (died inside epoch_finish)
    chain_tip,              \* StacksBlockBuilder.chain_tip
    header,                 \* StacksBlockBuilder.header
    txs,                    \* StacksBlockBuilder.txs (the anchored transactions)
    micro_txs,              \* StacksBlockBuilder.micro_txs
    bytes_so_far,           \* StacksBlockBuilder.bytes_so_far
    anchored_done,          \* StacksBlockBuilder.anchored_done
    prev_microblock_header, \* StacksBlockBuilder.prev_microblock_header
    miner_privkey,          \* StacksBlockBuilder.miner_privkey
    miner_payouts,          \* StacksBlockBuilder.miner_payouts
    clarity_tx,             \* the trie of the ClarityTx epoch_begin returned
    chainstate,             \* the StacksChainState the miner opened: its
                            \* staging microblocks, matured rewards, trie files
    last_call,              \* the last operation called and what it returned
    block,                  \* the StacksBlock mine_anchored_block returned
    microblocks,            \* the StacksMicroblocks mine_next_microblock returned
    ok_txs,                 \* the transactions try_mine_tx returned Ok(()) for
    ok_at_final,            \* Len(ok_txs) when mine_anchored_block was called
    minted_at_final,        \* Len(microblocks) when mine_anchored_block was called
    sortition_winners,      \* the miner that won each block of the chain so far
    miner_status,           \* the matured reward each miner has been granted
    builder_2               \* a second builder with its own handle on the same
                            \* chainstate directory: where it is, its
                            \* bytes_so_far, the trie of its ClarityTx

\* the chain the tenures extend
chain_vars == <<sortition_winners, miner_status, builder_2>>

builder_vars == <<header, txs, micro_txs, bytes_so_far, anchored_done,
                  prev_microblock_header, miner_privkey, miner_payouts, chain_tip>>
vars == <<lifecycle, chain_tip, header, txs, micro_txs, bytes_so_far,
          anchored_done, prev_microblock_header, miner_privkey, miner_payouts,
          clarity_tx, chainstate, last_call, block, microblocks, ok_txs,
          ok_at_final, minted_at_final, chain_vars>>

anchored_txs == txs

\* what a call left behind for its caller
Call(op, res) == [op |-> op, res |-> res]

\* the trie file a tenure before this one published
OldTrie == << <<"old_tenure">> >>
SentinelBlockPath == BlockPath(MINER_BLOCK_BURN_HEADER_HASH, MINER_BLOCK_HEADER_HASH)
SentinelMinedPath ==
    MinedPath(SentinelBlockPath,
              MakeIndexBlockHash(MINER_BLOCK_BURN_HEADER_HASH, MINER_BLOCK_HEADER_HASH))

\* the chainstate directory a miner starts from: empty at genesis, and
\* holding the trie of the miner's last tenure afterwards
InitialFiles(tip) ==
    IF tip = GenesisChainTip THEN {}
    ELSE {[path |-> SentinelMinedPath, trie |-> OldTrie]}

\* ------------------------------------------------------------ construction
\* Fault: pubk.set_compressed(true) is left out before hashing the key.
FromParentHeader_Uncompressed(parent_chain_tip, microblock_privkey) ==
    FromParentEmpty(parent_chain_tip.anchored_header,
                    parent_chain_tip.microblock_tail,
                    Hash160(<<"pubkey", microblock_privkey, "uncompressed">>))

\* StacksBlockBuilder::from_parent: the header it builds
FromParentHeader(parent_chain_tip, microblock_privkey) ==
    FromParentEmpty(parent_chain_tip.anchored_header,
                    parent_chain_tip.microblock_tail,
                    Hash160(CompressedPubkey(microblock_privkey)))

\* Fault: parent_block is left as from_parent derived it.
FirstHeader_NotForced(microblock_privkey) ==
    FromParentHeader(GenesisChainTip, microblock_privkey)

\* StacksBlockBuilder::first: from_parent on the genesis tip, parent_block forced
FirstHeader(microblock_privkey) ==
    [FromParentHeader(GenesisChainTip, microblock_privkey)
        EXCEPT !.parent_block = EMPTY_MICROBLOCK_PARENT_HASH]

\* header.serialize().len() as u64
InitialBytesSoFar(hdr) == HeaderLen

\* the prev_microblock_header a new builder holds ("will be updated")
InitialPrevMicroblockHeader == FirstUnsigned(EMPTY_MICROBLOCK_PARENT_HASH, ZeroSha512)

Init ==
    /\ lifecycle = "Fresh"
    /\ chain_tip \in {GenesisChainTip} \cup ParentChainTips
    /\ header = IF chain_tip = GenesisChainTip
                THEN FirstHeader(MicroblockPrivkey)
                ELSE FromParentHeader(chain_tip, MicroblockPrivkey)
    /\ txs = <<>>
    /\ micro_txs = <<>>
    /\ bytes_so_far = InitialBytesSoFar(header)
    /\ anchored_done = FALSE
    /\ prev_microblock_header = InitialPrevMicroblockHeader
    /\ miner_privkey = MicroblockPrivkey
    /\ miner_payouts = None
    /\ clarity_tx = <<>>
    /\ \E n \in 0..MaxParentMblocks, matured \in {None, Some(MaturedRewards)} :
          chainstate = [staging |-> ParentStream(n), matured |-> matured,
                        files   |-> InitialFiles(chain_tip)]
    /\ last_call = Call(IF chain_tip = GenesisChainTip THEN "first" ELSE "from_parent",
                        "Ok")
    /\ block = None
    /\ microblocks = <<>>
    /\ ok_txs = <<>>
    /\ ok_at_final = 0
    /\ minted_at_final = 0
    /\ sortition_winners = <<>>
    /\ miner_status = [m \in Miners |-> 0]
    /\ builder_2 = [lifecycle |-> "Fresh", bytes_so_far |-> InitialBytesSoFar(header),
                    clarity_tx |-> <<>>, overlapped |-> FALSE]

\* -------------------------------------------------- set_parent_microblock
\* Fault: the hash is written to parent_block.
SetParentMicroblockHeader_ParentBlock(hdr, parent_mblock_hash, parent_mblock_seq) ==
    [hdr EXCEPT !.parent_block = parent_mblock_hash,
                !.parent_microblock_sequence = parent_mblock_seq]

\* the header after set_parent_microblock(parent_mblock_hash, parent_mblock_seq)
SetParentMicroblockHeader(hdr, parent_mblock_hash, parent_mblock_seq) ==
    [hdr EXCEPT !.parent_microblock = parent_mblock_hash,
                !.parent_microblock_sequence = parent_mblock_seq]

\* the parents a caller assigns by hand
AssignedParents == { <<<<"orphaned_mblock">>, 1>> }

SetParentMicroblock(parent_mblock_hash, parent_mblock_seq) ==
    /\ lifecycle \in {"Fresh", "Open"}
    /\ header' = SetParentMicroblockHeader(header, parent_mblock_hash, parent_mblock_seq)
    /\ last_call' = Call("set_parent_microblock", "Ok")
    /\ UNCHANGED <<lifecycle, chain_tip, txs, micro_txs, bytes_so_far, anchored_done,
                   prev_microblock_header, miner_privkey, miner_payouts, clarity_tx,
                   chainstate, block, microblocks, ok_txs, ok_at_final, minted_at_final, chain_vars>>

\* ------------------------------------------------------------- try_mine_tx
\* Fault: the comparison is strict, so a total of exactly MAX_EPOCH_SIZE passes.
BlockTooBig_Strict(bytes, tx_len) == bytes + tx_len > MAX_EPOCH_SIZE

\* Fault: the candidate's own length is left out of the comparison.
BlockTooBig_NoLen(bytes, tx_len) == bytes >= MAX_EPOCH_SIZE

\* self.bytes_so_far + tx_len >= MAX_EPOCH_SIZE.into()
BlockTooBig(bytes, tx_len) == bytes + tx_len >= MAX_EPOCH_SIZE

\* Fault: the anchored branch takes every anchor mode.
AnchoredModeOk_Any(tx) == TRUE

\* the anchor modes the anchored block takes
AnchoredModeOk(tx) ==
    ~(tx.anchor_mode # "OnChainOnly" /\ tx.anchor_mode # "Any")

\* Fault: the streamed branch repeats the anchored branch's test.
StreamedModeOk_AsAnchored(tx) ==
    ~(tx.anchor_mode # "OnChainOnly" /\ tx.anchor_mode # "Any")

\* the anchor modes the microblock stream takes
StreamedModeOk(tx) ==
    ~(tx.anchor_mode # "OffChainOnly" /\ tx.anchor_mode # "Any")

\* Fault: every transaction is routed to the anchored block.
RouteAnchored_Always(done) == TRUE

\* if !self.anchored_done: the transaction goes to the anchored block
RouteAnchored(done) == ~done

\* Fault: the transaction is put at the front of the list.
Push_Front(list, tx) == <<tx>> \o list

\* self.txs.push(tx.clone()) / self.micro_txs.push(tx.clone())
Push(list, tx) == Append(list, tx)

\* Fault: the length is assigned, not added.
AddBytes_Assign(bytes, tx_len) == tx_len

\* self.bytes_so_far += tx_len
AddBytes(bytes, tx_len) == bytes + tx_len

\* Fault: the anchor mode is tested before the size.
TryMineTxResult_ModeFirst(tx, vm_ok) ==
    IF RouteAnchored(anchored_done) /\ ~AnchoredModeOk(tx)
    THEN "InvalidStacksTransaction"
    ELSE IF ~RouteAnchored(anchored_done) /\ ~StreamedModeOk(tx)
    THEN "InvalidStacksTransaction"
    ELSE IF BlockTooBig(bytes_so_far, TxLen(tx)) THEN "BlockTooBigError"
    ELSE IF ~vm_ok THEN "VmError" ELSE "Ok"

\* try_mine_tx's result for tx, when the VM answers vm_ok to process_transaction
TryMineTxResult(tx, vm_ok) ==
    IF BlockTooBig(bytes_so_far, TxLen(tx)) THEN "BlockTooBigError"
    ELSE IF RouteAnchored(anchored_done)
         THEN IF ~AnchoredModeOk(tx) THEN "InvalidStacksTransaction"
              ELSE IF ~vm_ok THEN "VmError" ELSE "Ok"
         ELSE IF ~StreamedModeOk(tx) THEN "InvalidStacksTransaction"
              ELSE IF ~vm_ok THEN "VmError" ELSE "Ok"

\* Fault: the transaction is pushed and counted before the VM processes it,
\* so a VM error leaves it in the list.
TryMineTx_PushFirst(tx, vm_ok) ==
    /\ lifecycle = "Open"
    /\ LET res == TryMineTxResult(tx, vm_ok) IN
       /\ last_call' = Call("try_mine_tx", res)
       /\ IF res \in {"Ok", "VmError"}
          THEN /\ IF RouteAnchored(anchored_done)
                  THEN txs' = Push(txs, tx) /\ UNCHANGED micro_txs
                  ELSE micro_txs' = Push(micro_txs, tx) /\ UNCHANGED txs
               /\ bytes_so_far' = AddBytes(bytes_so_far, TxLen(tx))
          ELSE UNCHANGED <<txs, micro_txs, bytes_so_far>>
       /\ IF res = "Ok"
          THEN /\ clarity_tx' = ProcessTransaction(clarity_tx, tx)
               /\ ok_txs' = Append(ok_txs, tx)
          ELSE UNCHANGED <<clarity_tx, ok_txs>>
    /\ UNCHANGED <<lifecycle, chain_tip, header, anchored_done, prev_microblock_header,
                   miner_privkey, miner_payouts, chainstate, block, microblocks,
                   ok_at_final, minted_at_final, chain_vars>>

TryMineTx(tx, vm_ok) ==
    /\ lifecycle = "Open"
    /\ LET res == TryMineTxResult(tx, vm_ok) IN
       /\ last_call' = Call("try_mine_tx", res)
       /\ IF res = "Ok"
          THEN /\ clarity_tx' = ProcessTransaction(clarity_tx, tx)
               /\ IF RouteAnchored(anchored_done)
                  THEN txs' = Push(txs, tx) /\ UNCHANGED micro_txs
                  ELSE micro_txs' = Push(micro_txs, tx) /\ UNCHANGED txs
               /\ bytes_so_far' = AddBytes(bytes_so_far, TxLen(tx))
               /\ ok_txs' = Append(ok_txs, tx)
          ELSE UNCHANGED <<clarity_tx, txs, micro_txs, bytes_so_far, ok_txs>>
    /\ UNCHANGED <<lifecycle, chain_tip, header, anchored_done, prev_microblock_header,
                   miner_privkey, miner_payouts, chainstate, block, microblocks,
                   ok_at_final, minted_at_final, chain_vars>>

\* ----------------------------------------------------- mine_anchored_block
\* Fault: the assertion is missing.
AnchoredDonePrecondition_Missing(done) == TRUE

\* assert!(!self.anchored_done)
AnchoredDonePrecondition(done) == ~done

\* Fault: the root is taken over micro_txs, as in mine_next_microblock.
AnchoredTxMerkleRoot_OverMicro(anchored) == MerkleRoot(TxidVecs(micro_txs))

\* MerkleTree over the txids of self.txs, then root()
AnchoredTxMerkleRoot(anchored) == MerkleRoot(TxidVecs(anchored))

\* Fault: the grant is made only for a block that has transactions.
GrantPayouts_OnlyWithTxs(trie, payouts) ==
    IF payouts # None /\ txs # <<>>
    THEN ProcessMaturedMinerRewards(trie, Unwrap(payouts))
    ELSE trie

\* Fault: the grant is skipped.
GrantPayouts_Skipped(trie, payouts) == trie

\* the trie after the matured-rewards grant of mine_anchored_block
GrantPayouts(trie, payouts) ==
    IF payouts # None THEN ProcessMaturedMinerRewards(trie, Unwrap(payouts)) ELSE trie

\* Fault: only the transaction root is patched.
FinalHeader_NoStateRoot(hdr, tx_merkle_root, state_root_hash) ==
    [hdr EXCEPT !.tx_merkle_root = tx_merkle_root]

\* self.header with both roots patched
FinalHeader(hdr, tx_merkle_root, state_root_hash) ==
    [hdr EXCEPT !.tx_merkle_root = tx_merkle_root,
                !.state_index_root = state_root_hash]

\* StacksBlock { header: self.header.clone(), txs: self.txs.clone() }
StacksBlock(hdr, anchored) == [header |-> hdr, txs |-> anchored]

\* Fault: the placeholder carries the Merkle root of no transactions.
AnchoredPrevMicroblockHeader_EmptyRoot(blk) ==
    FirstUnsigned(BlockHash(blk.header), EmptyMerkleRoot)

\* Fault: prev_microblock_header is not re-seeded from the anchored block.
AnchoredPrevMicroblockHeader_Stale(blk) ==
    FirstUnsigned(EMPTY_MICROBLOCK_PARENT_HASH, ZeroSha512)

\* prev_microblock_header after mine_anchored_block
AnchoredPrevMicroblockHeader(blk) ==
    [FirstUnsigned(BlockHash(blk.header), ZeroSha512)
        EXCEPT !.prev_block = BlockHash(blk.header)]

\* Fault: the context is committed when the anchored block is mined.
MineAnchoredBlock_Committing(rewards_ok) ==
    /\ lifecycle = "Open"
    /\ IF ~AnchoredDonePrecondition(anchored_done)
          \/ (miner_payouts # None /\ ~rewards_ok)
       THEN \* assert!(!self.anchored_done) or the expect() on the grant panics
            /\ lifecycle' = "Aborted"
            /\ last_call' = Call("mine_anchored_block", "panic")
            /\ UNCHANGED <<header, clarity_tx, block, prev_microblock_header,
                           anchored_done, ok_at_final, minted_at_final,
                           chainstate>>
       ELSE LET trie == GrantPayouts(clarity_tx, miner_payouts)
                hdr  == FinalHeader(header, AnchoredTxMerkleRoot(txs), RootHash(trie))
                blk  == StacksBlock(hdr, txs)
            IN /\ clarity_tx' = trie
               /\ header' = hdr
               /\ block' = Some(blk)
               /\ prev_microblock_header' = AnchoredPrevMicroblockHeader(blk)
               /\ anchored_done' = TRUE
               /\ ok_at_final' = Len(ok_txs)
               /\ minted_at_final' = Len(microblocks)
               /\ last_call' = Call("mine_anchored_block", "Ok")
               /\ chainstate' = [chainstate EXCEPT !.files =
                                   {f \in @ : f.path # SentinelBlockPath}
                                     \cup {[path |-> SentinelBlockPath, trie |-> trie]}]
               /\ UNCHANGED lifecycle
    /\ UNCHANGED <<chain_tip, txs, micro_txs, bytes_so_far, miner_privkey,
                   miner_payouts, microblocks, ok_txs, chain_vars>>

MineAnchoredBlock(rewards_ok) ==
    /\ lifecycle = "Open"
    /\ IF ~AnchoredDonePrecondition(anchored_done)
          \/ (miner_payouts # None /\ ~rewards_ok)
       THEN \* assert!(!self.anchored_done) or the expect() on the grant panics
            /\ lifecycle' = "Aborted"
            /\ last_call' = Call("mine_anchored_block", "panic")
            /\ UNCHANGED <<header, clarity_tx, block, prev_microblock_header,
                           anchored_done, ok_at_final, minted_at_final>>
       ELSE LET trie == GrantPayouts(clarity_tx, miner_payouts)
                hdr  == FinalHeader(header, AnchoredTxMerkleRoot(txs), RootHash(trie))
                blk  == StacksBlock(hdr, txs)
            IN /\ clarity_tx' = trie
               /\ header' = hdr
               /\ block' = Some(blk)
               /\ prev_microblock_header' = AnchoredPrevMicroblockHeader(blk)
               /\ anchored_done' = TRUE
               /\ ok_at_final' = Len(ok_txs)
               /\ minted_at_final' = Len(microblocks)
               /\ last_call' = Call("mine_anchored_block", "Ok")
               /\ UNCHANGED lifecycle
    /\ UNCHANGED <<chain_tip, txs, micro_txs, bytes_so_far, miner_privkey,
                   miner_payouts, chainstate, microblocks, ok_txs, chain_vars>>

\* ---------------------------------------------------- mine_next_microblock
\* MerkleTree over the txids of self.micro_txs, then root()
MicroTxMerkleRoot(micro) == MerkleRoot(TxidVecs(micro))

\* next_microblock_header before signing: Some(header), or None for
\* MicroblockStreamTooLongError
NextMicroblockHeader(prev, tx_merkle_root) ==
    IF prev.tx_merkle_root = ZeroSha512
    THEN Some(FirstUnsigned(prev.prev_block, tx_merkle_root))
    ELSE FromParentUnsigned(prev, tx_merkle_root)

\* StacksMicroblock { header: next_microblock_header, txs: self.micro_txs.clone() }
StacksMicroblock(hdr, micro) == [header |-> hdr, txs |-> micro]

\* Fault: the pending list is not cleared.
MicroTxsAfterMint_Kept(micro) == micro

\* self.micro_txs.clear()
MicroTxsAfterMint(micro) == <<>>

\* Fault: the pending transactions are cleared before the header is built,
\* so a mint that fails with the stream-too-long error drops them.
MineNextMicroblock_ClearsOnFailure ==
    /\ lifecycle \in {"Fresh", "Open"}
    /\ LET next == NextMicroblockHeader(prev_microblock_header,
                                        MicroTxMerkleRoot(micro_txs))
       IN IF next = None
          THEN /\ last_call' = Call("mine_next_microblock", "MicroblockStreamTooLongError")
               /\ micro_txs' = <<>>
               /\ UNCHANGED <<lifecycle, prev_microblock_header, microblocks>>
          ELSE LET signed == Sign(Unwrap(next), miner_privkey) IN
               IF ~Verify(signed, header.microblock_pubkey_hash)
               THEN \* verify(..).unwrap() panics
                    /\ lifecycle' = "Aborted"
                    /\ last_call' = Call("mine_next_microblock", "panic")
                    /\ UNCHANGED <<prev_microblock_header, micro_txs, microblocks>>
               ELSE /\ prev_microblock_header' = signed
                    /\ microblocks' = Append(microblocks, StacksMicroblock(signed, micro_txs))
                    /\ micro_txs' = MicroTxsAfterMint(micro_txs)
                    /\ last_call' = Call("mine_next_microblock", "Ok")
                    /\ UNCHANGED lifecycle
    /\ UNCHANGED <<chain_tip, header, txs, bytes_so_far, anchored_done, miner_privkey,
                   miner_payouts, clarity_tx, chainstate, block, ok_txs, ok_at_final, minted_at_final, chain_vars>>

\* Fault: a minted microblock starts a fresh size budget.
MineNextMicroblock_ResetsBytes ==
    /\ lifecycle \in {"Fresh", "Open"}
    /\ LET next == NextMicroblockHeader(prev_microblock_header,
                                        MicroTxMerkleRoot(micro_txs))
       IN IF next = None
          THEN /\ last_call' = Call("mine_next_microblock", "MicroblockStreamTooLongError")
               /\ UNCHANGED <<lifecycle, prev_microblock_header, micro_txs, microblocks>>
          ELSE LET signed == Sign(Unwrap(next), miner_privkey) IN
               IF ~Verify(signed, header.microblock_pubkey_hash)
               THEN \* verify(..).unwrap() panics
                    /\ lifecycle' = "Aborted"
                    /\ last_call' = Call("mine_next_microblock", "panic")
                    /\ UNCHANGED <<prev_microblock_header, micro_txs, microblocks>>
               ELSE /\ prev_microblock_header' = signed
                    /\ microblocks' = Append(microblocks, StacksMicroblock(signed, micro_txs))
                    /\ micro_txs' = MicroTxsAfterMint(micro_txs)
                    /\ last_call' = Call("mine_next_microblock", "Ok")
                    /\ UNCHANGED lifecycle
    /\ bytes_so_far' = IF last_call'.res = "Ok" THEN InitialBytesSoFar(header)
                       ELSE bytes_so_far
    /\ UNCHANGED <<chain_tip, header, txs, anchored_done, miner_privkey,
                   miner_payouts, clarity_tx, chainstate, block, ok_txs, ok_at_final, minted_at_final, chain_vars>>

\* mine_next_microblock(): no check of anchored_done; the header is built
\* first, and a stream that is too long returns before anything is written.
MineNextMicroblock ==
    /\ lifecycle \in {"Fresh", "Open"}
    /\ LET next == NextMicroblockHeader(prev_microblock_header,
                                        MicroTxMerkleRoot(micro_txs))
       IN IF next = None
          THEN /\ last_call' = Call("mine_next_microblock", "MicroblockStreamTooLongError")
               /\ UNCHANGED <<lifecycle, prev_microblock_header, micro_txs, microblocks>>
          ELSE LET signed == Sign(Unwrap(next), miner_privkey) IN
               IF ~Verify(signed, header.microblock_pubkey_hash)
               THEN \* verify(..).unwrap() panics
                    /\ lifecycle' = "Aborted"
                    /\ last_call' = Call("mine_next_microblock", "panic")
                    /\ UNCHANGED <<prev_microblock_header, micro_txs, microblocks>>
               ELSE /\ prev_microblock_header' = signed
                    /\ microblocks' = Append(microblocks, StacksMicroblock(signed, micro_txs))
                    /\ micro_txs' = MicroTxsAfterMint(micro_txs)
                    /\ last_call' = Call("mine_next_microblock", "Ok")
                    /\ UNCHANGED lifecycle
    /\ UNCHANGED <<chain_tip, header, txs, bytes_so_far, anchored_done, miner_privkey,
                   miner_payouts, clarity_tx, chainstate, block, ok_txs, ok_at_final, minted_at_final, chain_vars>>

\* ------------------------------------------------------------- epoch_begin
\* StacksChainState::find_mature_miner_rewards(&mut tx, &self.chain_tip)
FindMatureMinerRewards(cs, tip) == cs.matured

\* load_staging_microblock_stream(..): Some(mblocks) => mblocks, None => vec![]
LoadStagingMicroblockStream(cs) == cs.staging

\* Fault: the empty stream leaves the header as the constructor made it.
EpochBeginHeader_NoEmptyCase(hdr, parent_microblocks) ==
    IF Len(parent_microblocks) = 0
    THEN hdr
    ELSE LET last_mblock_hdr == parent_microblocks[Len(parent_microblocks)]
         IN SetParentMicroblockHeader(hdr, last_mblock_hdr.hash, last_mblock_hdr.sequence)

\* Fault: a parent microblock already in the header is kept.
EpochBeginHeader_KeepsAssigned(hdr, parent_microblocks) ==
    IF hdr.parent_microblock # EMPTY_MICROBLOCK_PARENT_HASH
    THEN hdr
    ELSE IF Len(parent_microblocks) = 0
    THEN SetParentMicroblockHeader(hdr, EMPTY_MICROBLOCK_PARENT_HASH, 0)
    ELSE LET last_mblock_hdr == parent_microblocks[Len(parent_microblocks)]
         IN SetParentMicroblockHeader(hdr, last_mblock_hdr.hash, last_mblock_hdr.sequence)

\* the header after epoch_begin has replayed parent_microblocks
EpochBeginHeader(hdr, parent_microblocks) ==
    IF Len(parent_microblocks) = 0
    THEN SetParentMicroblockHeader(hdr, EMPTY_MICROBLOCK_PARENT_HASH, 0)
    ELSE LET last_mblock_hdr == parent_microblocks[Len(parent_microblocks)]
         IN SetParentMicroblockHeader(hdr, last_mblock_hdr.hash, last_mblock_hdr.sequence)

\* Fault: the parent microblock is assigned before the stream is replayed,
\* so a rejected stream leaves it in the header.
EpochBegin_SetParentFirst(headers_ok, load_ok, offender) ==
    /\ lifecycle = "Fresh"
    /\ LET parent_microblocks == LoadStagingMicroblockStream(chainstate) IN
       /\ offender \in 0..Len(parent_microblocks)
       /\ IF ~headers_ok
          THEN /\ last_call' = Call("epoch_begin", "DBError")
               /\ UNCHANGED <<lifecycle, header, miner_payouts, clarity_tx>>
          ELSE /\ miner_payouts' = FindMatureMinerRewards(chainstate, chain_tip)
               /\ IF ~load_ok
                  THEN /\ last_call' = Call("epoch_begin", "DBError")
                       /\ UNCHANGED <<lifecycle, header, clarity_tx>>
                  ELSE IF offender # 0
                  THEN /\ last_call' = Call("epoch_begin", <<"InvalidStacksMicroblock", parent_microblocks[offender].hash>>)
                       /\ header' = EpochBeginHeader(header, parent_microblocks)
                       /\ UNCHANGED <<lifecycle, clarity_tx>>
                  ELSE /\ clarity_tx' = ProcessMicroblocksTransactions(<<>>, parent_microblocks)
                       /\ header' = EpochBeginHeader(header, parent_microblocks)
                       /\ lifecycle' = "Open"
                       /\ last_call' = Call("epoch_begin", "Ok")
    /\ UNCHANGED <<chain_tip, txs, micro_txs, bytes_so_far, anchored_done,
                   prev_microblock_header, miner_privkey, chainstate, block,
                   microblocks, ok_txs, ok_at_final, minted_at_final, chain_vars>>

\* headers_ok: headers_tx_begin and find_mature_miner_rewards succeed;
\* load_ok: load_staging_microblock_stream succeeds; offender: the index of
\* the parent microblock the VM rejects, 0 when it accepts the stream
EpochBegin(headers_ok, load_ok, offender) ==
    /\ lifecycle = "Fresh"
    /\ LET parent_microblocks == LoadStagingMicroblockStream(chainstate) IN
       /\ offender \in 0..Len(parent_microblocks)
       /\ IF ~headers_ok
          THEN /\ last_call' = Call("epoch_begin", "DBError")
               /\ UNCHANGED <<lifecycle, header, miner_payouts, clarity_tx>>
          ELSE /\ miner_payouts' = FindMatureMinerRewards(chainstate, chain_tip)
               /\ IF ~load_ok
                  THEN /\ last_call' = Call("epoch_begin", "DBError")
                       /\ UNCHANGED <<lifecycle, header, clarity_tx>>
                  ELSE IF offender # 0
                  THEN /\ last_call' = Call("epoch_begin", <<"InvalidStacksMicroblock", parent_microblocks[offender].hash>>)
                       /\ UNCHANGED <<lifecycle, header, clarity_tx>>
                  ELSE /\ clarity_tx' = ProcessMicroblocksTransactions(<<>>, parent_microblocks)
                       /\ header' = EpochBeginHeader(header, parent_microblocks)
                       /\ lifecycle' = "Open"
                       /\ last_call' = Call("epoch_begin", "Ok")
    /\ UNCHANGED <<chain_tip, txs, micro_txs, bytes_so_far, anchored_done,
                   prev_microblock_header, miner_privkey, chainstate, block,
                   microblocks, ok_txs, ok_at_final, minted_at_final, chain_vars>>

\* ------------------------------------------------------------ epoch_finish
\* the files of a directory after writing trie at path (replacing what is there)
WriteFile(files, path, trie) ==
    {f \in files : f.path # path} \cup {[path |-> path, trie |-> trie]}

\* Fault: a file already at the destination is not replaced.
RenameFile_KeepsExisting(files, from, to) ==
    IF \E f \in files : f.path = to
    THEN files
    ELSE {f \in files : f.path # from}
            \cup {[path |-> to, trie |-> f.trie] : f \in {g \in files : g.path = from}}

\* Fault: the file is copied, and stays at its old path too.
RenameFile_Copy(files, from, to) ==
    {f \in files : f.path # to}
        \cup {[path |-> to, trie |-> f.trie] : f \in {g \in files : g.path = from}}

\* fs::rename(from, to): the file moves, replacing what is at to
RenameFile(files, from, to) ==
    {f \in files : f.path # from /\ f.path # to}
        \cup {[path |-> to, trie |-> f.trie] : f \in {g \in files : g.path = from}}

\* the path epoch_finish commits the trie to
EpochFinishBlockPath == BlockPath(MINER_BLOCK_BURN_HEADER_HASH, MINER_BLOCK_HEADER_HASH)

\* Fault: the name is keyed by the parent the tenure builds on.
EpochFinishMinedPath_KeyedByParent ==
    MinedPath(EpochFinishBlockPath,
              MakeIndexBlockHash(chain_tip.burn_header_hash, header.parent_block))

\* the path epoch_finish renames the trie to
EpochFinishMinedPath ==
    MinedPath(EpochFinishBlockPath,
              MakeIndexBlockHash(MINER_BLOCK_BURN_HEADER_HASH, MINER_BLOCK_HEADER_HASH))

\* Fault: epoch_finish borrows the builder, which stays usable.
EpochFinishLifecycle_Borrowed(outcome) ==
    CASE outcome = "Ok"      -> "Open"
      [] outcome = "panic"   -> "Aborted"
      [] outcome = "crashed" -> "Crashed"

\* epoch_finish(self, tx): the builder and the ClarityTx are moved in, so
\* nothing can be called on them afterwards; a panic or a crash ends the
\* process
EpochFinishLifecycle(outcome) ==
    CASE outcome = "Ok"      -> "Finished"
      [] outcome = "panic"   -> "Aborted"
      [] outcome = "crashed" -> "Crashed"

\* outcome "Ok": commit_block, then fs::rename; "panic": the rename fails
\* and its expect() aborts; "crashed": the process dies between the two
EpochFinish(outcome) ==
    /\ lifecycle = "Open"
    /\ LET committed == WriteFile(chainstate.files, EpochFinishBlockPath, clarity_tx) IN
       chainstate' = [chainstate EXCEPT !.files =
                        IF outcome = "Ok"
                        THEN RenameFile(committed, EpochFinishBlockPath, EpochFinishMinedPath)
                        ELSE committed]
    /\ lifecycle' = EpochFinishLifecycle(outcome)
    /\ last_call' = Call("epoch_finish", outcome)
    /\ UNCHANGED <<builder_vars, clarity_tx, block, microblocks, ok_txs, ok_at_final, minted_at_final, chain_vars>>

\* ------------------------------------------------------------------- system
Next ==
    \/ \E p \in AssignedParents : SetParentMicroblock(p[1], p[2])
    \/ \E headers_ok \in BOOLEAN, load_ok \in BOOLEAN, offender \in 0..MaxParentMblocks :
          EpochBegin(headers_ok, load_ok, offender)
    \/ \E tx \in StacksTransaction, vm_ok \in BOOLEAN : TryMineTx(tx, vm_ok)
    \/ \E rewards_ok \in BOOLEAN : MineAnchoredBlock(rewards_ok)
    \/ MineNextMicroblock
    \/ \E outcome \in {"Ok", "panic", "crashed"} : EpochFinish(outcome)

Spec == Init /\ [][Next]_vars

\* -------------------------------------------------------- chain of tenures
\* Fault: the window is left out of the age a reward must reach.
FindMatureMinerRewardsAt_NoWindow(winners, height) ==
    IF height < MINER_REWARD_MATURITY
    THEN None
    ELSE Some(MinerReward(winners[height - MINER_REWARD_MATURITY + 1]))

\* find_mature_miner_rewards for the block at height, on a chain whose
\* block j was won by winners[j + 1]
FindMatureMinerRewardsAt(winners, height) ==
    IF height < MINER_REWARD_MATURITY + MINER_REWARD_WINDOW
    THEN None
    ELSE Some(MinerReward(winners[height - MINER_REWARD_MATURITY
                                    - MINER_REWARD_WINDOW + 1]))

\* process_matured_miner_rewards, as get_miner_status reads it back
CreditMiner(status, payouts) ==
    IF payouts = None THEN status
    ELSE [status EXCEPT ![Unwrap(payouts)[1]] = @ + Unwrap(payouts)[2]]

\* One round of the chain tests: a builder for the next block resolves its
\* payouts in epoch_begin, grants them in mine_anchored_block, and the block
\* of the sortition winner extends the chain.
MineTenure(winner) ==
    /\ lifecycle = "Fresh"
    /\ Len(sortition_winners) < MaxTenures
    /\ LET payouts == FindMatureMinerRewardsAt(sortition_winners,
                                               Len(sortition_winners))
       IN /\ miner_payouts' = payouts
          /\ miner_status' = CreditMiner(miner_status, payouts)
    /\ sortition_winners' = Append(sortition_winners, winner)
    /\ UNCHANGED <<lifecycle, chain_tip, header, txs, micro_txs, bytes_so_far,
                   anchored_done, prev_microblock_header, miner_privkey,
                   clarity_tx, chainstate, last_call, block, microblocks, ok_txs,
                   ok_at_final, minted_at_final, builder_2>>

InitRewards ==
    /\ Init
    /\ chain_tip = GenesisChainTip
    /\ chainstate.staging = <<>>
    /\ chainstate.matured = None

NextRewards == \E winner \in Miners : MineTenure(winner)

SpecRewards == InitRewards /\ [][NextRewards]_vars

\* ------------------------------------------- two builders, one directory
\* The two-miner tests give each miner its own builder and its own
\* open_chainstate handle on the same directory. builder_2 is the second
\* builder, followed through the calls that touch its context and the
\* directory; overlapped records that its epoch_begin ran while the first
\* builder's ClarityTx was outstanding.

\* the transactions offered to the second builder
StacksTransaction_2 == {Tx(5, 1, "Any")}

\* builder_2.epoch_begin(&mut miner_chainstate): the same replay, under the
\* same sentinel pair
EpochBegin_2 ==
    /\ builder_2.lifecycle = "Fresh"
    /\ builder_2' = [builder_2 EXCEPT
            !.lifecycle = "Open",
            !.clarity_tx = ProcessMicroblocksTransactions(
                               <<>>, LoadStagingMicroblockStream(chainstate)),
            !.overlapped = (lifecycle = "Open")]
    /\ UNCHANGED <<lifecycle, builder_vars, clarity_tx, chainstate, last_call, block,
                   microblocks, ok_txs, ok_at_final, minted_at_final,
                   sortition_winners, miner_status>>

\* builder_2.try_mine_tx(&mut epoch, &tx), for a transaction the VM accepts
TryMineTx_2(tx) ==
    /\ builder_2.lifecycle = "Open"
    /\ ~BlockTooBig(builder_2.bytes_so_far, TxLen(tx))
    /\ builder_2' = [builder_2 EXCEPT
            !.bytes_so_far = AddBytes(@, TxLen(tx)),
            !.clarity_tx = ProcessTransaction(@, tx)]
    /\ UNCHANGED <<lifecycle, builder_vars, clarity_tx, chainstate, last_call, block,
                   microblocks, ok_txs, ok_at_final, minted_at_final,
                   sortition_winners, miner_status>>

\* builder_2.epoch_finish(epoch): commit_block, then fs::rename, on the
\* paths the sentinel pair gives
EpochFinish_2 ==
    /\ builder_2.lifecycle = "Open"
    /\ LET committed == WriteFile(chainstate.files, EpochFinishBlockPath,
                                  builder_2.clarity_tx) IN
       chainstate' = [chainstate EXCEPT !.files =
                        RenameFile(committed, EpochFinishBlockPath, EpochFinishMinedPath)]
    /\ builder_2' = [builder_2 EXCEPT !.lifecycle = "Finished"]
    /\ UNCHANGED <<lifecycle, builder_vars, clarity_tx, last_call, block,
                   microblocks, ok_txs, ok_at_final, minted_at_final,
                   sortition_winners, miner_status>>

NextShared ==
    \/ \E headers_ok \in BOOLEAN, load_ok \in BOOLEAN, offender \in 0..MaxParentMblocks :
          EpochBegin(headers_ok, load_ok, offender)
    \/ \E tx \in StacksTransaction, vm_ok \in BOOLEAN : TryMineTx(tx, vm_ok)
    \/ \E rewards_ok \in BOOLEAN : MineAnchoredBlock(rewards_ok)
    \/ \E outcome \in {"Ok", "panic", "crashed"} : EpochFinish(outcome)
    \/ EpochBegin_2
    \/ \E tx \in StacksTransaction_2 : TryMineTx_2(tx)
    \/ EpochFinish_2

SpecShared == Init /\ [][NextShared]_vars

\* --------------------------------------------------------------- validator
RECURSIVE ProcessBlockTransactions(_, _)
\* the VM applied to a block's transactions, in the block's order
ProcessBlockTransactions(trie, block_txs) ==
    IF block_txs = <<>> THEN trie
    ELSE ProcessBlockTransactions(ProcessTransaction(trie, Head(block_txs)),
                                  Tail(block_txs))

\* The trie a validator builds for an anchored block: the parent's
\* microblock stream, the block's transactions in order, the matured rewards.
ValidatorReplay(parent_microblocks, block_txs, matured) ==
    LET replayed == ProcessMicroblocksTransactions(<<>>, parent_microblocks)
        applied  == ProcessBlockTransactions(replayed, block_txs)
    IN IF matured # None
       THEN ProcessMaturedMinerRewards(applied, Unwrap(matured))
       ELSE applied

\* ================================================================== claims
ModesOf(list) == {list[i].anchor_mode : i \in 1..Len(list)}

\* C1: every transaction of anchored_txs has anchor mode OnChainOnly or Any;
\* every transaction of micro_txs, and of every microblock returned by
\* mine_next_microblock, has anchor mode OffChainOnly or Any.
C1_AnchorModePartition ==
    /\ ModesOf(anchored_txs) \subseteq {"OnChainOnly", "Any"}
    /\ ModesOf(micro_txs) \subseteq {"OffChainOnly", "Any"}
    /\ \A i \in 1..Len(microblocks) :
          ModesOf(microblocks[i].txs) \subseteq {"OffChainOnly", "Any"}

\* the anchored block holds a transaction, and a microblock carrying one
\* was cut
C1_Witness ==
    /\ anchored_txs # <<>>
    /\ \E i \in 1..Len(microblocks) : microblocks[i].txs # <<>>

\* C2: try_mine_tx on a transaction of serialized length L fails with
\* BlockTooBigError exactly when bytes_so_far + L >= MAX_EPOCH_SIZE, and that
\* failure leaves bytes_so_far, anchored_txs and micro_txs as they were.
C2_BlockTooBigExactly ==
    [][\A tx \in StacksTransaction, vm_ok \in BOOLEAN :
          TryMineTx(tx, vm_ok) =>
            /\ (last_call'.res = "BlockTooBigError")
                  <=> (bytes_so_far + TxLen(tx) >= MAX_EPOCH_SIZE)
            /\ (last_call'.res = "BlockTooBigError")
                  => /\ bytes_so_far' = bytes_so_far
                     /\ anchored_txs' = anchored_txs
                     /\ micro_txs' = micro_txs]_vars

\* a transaction that would bring the total to exactly MAX_EPOCH_SIZE was
\* refused, with an earlier transaction still in the block
C2_Witness ==
    /\ last_call = Call("try_mine_tx", "BlockTooBigError")
    /\ bytes_so_far = MAX_EPOCH_SIZE - 2
    /\ anchored_txs # <<>>

\* C3: bytes_so_far is the header length fixed at construction plus the
\* lengths of the transactions try_mine_tx accepted; each accepted transaction
\* adds exactly its length, and nothing else changes bytes_so_far.
C3_BytesSoFarExact ==
    /\ [](bytes_so_far = HeaderLen + SumLen(ok_txs))
    /\ [][bytes_so_far' # bytes_so_far =>
            \E tx \in StacksTransaction :
               /\ TryMineTx(tx, TRUE)
               /\ last_call'.res = "Ok"
               /\ bytes_so_far' = bytes_so_far + TxLen(tx)]_vars

\* two transactions were accepted, the second after finalization
C3_Witness ==
    /\ Len(ok_txs) = 2
    /\ micro_txs # <<>>
    /\ bytes_so_far > HeaderLen + 1

\* C4: the transactions of anchored_txs never add up to more than
\* MAX_EPOCH_SIZE minus the header length, so the anchored block returned is
\* at most MAX_EPOCH_SIZE bytes of header and transactions.
C4_AnchoredWithinEpochSize ==
    /\ SumLen(anchored_txs) <= MAX_EPOCH_SIZE - HeaderLen
    /\ block # None =>
          HeaderLen + SumLen(Unwrap(block).txs) <= MAX_EPOCH_SIZE

\* an anchored block that fills the budget was returned
C4_Witness ==
    /\ block # None
    /\ HeaderLen + SumLen(Unwrap(block).txs) = MAX_EPOCH_SIZE - 1

\* C5: anchored_done starts false, goes from false to true only inside a
\* mine_anchored_block that returns a block, does so at most once (such a call
\* always finds it false), and no later operation sets it back to false.
C5_AnchoredDoneOnce ==
    /\ anchored_done = FALSE
    /\ [][/\ anchored_done => anchored_done'
          /\ anchored_done' # anchored_done
                => last_call' = Call("mine_anchored_block", "Ok")
          /\ last_call' = Call("mine_anchored_block", "Ok")
                => ~anchored_done /\ anchored_done']_vars

\* after finalization a transaction was mined, a microblock cut and the
\* epoch finished
C5_Witness ==
    /\ anchored_done
    /\ lifecycle = "Finished"
    /\ microblocks # <<>>
    /\ Len(ok_txs) > ok_at_final

C7_BlockTxsAreAcceptedInOrder ==
    block # None => Unwrap(block).txs = SubSeq(ok_txs, 1, ok_at_final)

\* an anchored block of two different transactions was returned
C7_Witness ==
    /\ block # None
    /\ Len(Unwrap(block).txs) = 2
    /\ Unwrap(block).txs[1] # Unwrap(block).txs[2]

\* C8: after mine_anchored_block, tx_merkle_root in the builder's header and
\* in the returned block is the Merkle root over the txids of anchored_txs as
\* they were at finalization, the empty root when there were none.
C8_TxMerkleRootAtFinalization ==
    anchored_done =>
        /\ block # None
        /\ header.tx_merkle_root = MerkleRoot(TxidVecs(Unwrap(block).txs))
        /\ Unwrap(block).header.tx_merkle_root = MerkleRoot(TxidVecs(Unwrap(block).txs))
        /\ Unwrap(block).txs = <<>> => header.tx_merkle_root = EmptyMerkleRoot

\* a block of two transactions was finalized
C8_Witness ==
    /\ anchored_done
    /\ Len(anchored_txs) = 2

\* the trie after the parent's microblocks, the anchored transactions and
\* the matured rewards the builder holds
TenureTrie ==
    LET replayed == ProcessMicroblocksTransactions(<<>>, chainstate.staging)
        mined    == ProcessBlockTransactions(replayed, anchored_txs)
    IN IF miner_payouts # None
       THEN ProcessMaturedMinerRewards(mined, Unwrap(miner_payouts))
       ELSE mined

\* C9: after mine_anchored_block, state_index_root in the builder's header
\* and in the returned block is the context's root as read inside the call:
\* after the parent microblocks, the anchored transactions and the rewards
\* grant, and before any microblock transaction of the tenure.
C9_StateIndexRootAtFinalization ==
    /\ [](anchored_done =>
            /\ header.state_index_root = RootHash(TenureTrie)
            /\ block # None
            /\ Unwrap(block).header.state_index_root = RootHash(TenureTrie))
    /\ [][last_call' = Call("mine_anchored_block", "Ok")
            => /\ header'.state_index_root = RootHash(clarity_tx')
               /\ clarity_tx' = TenureTrie']_vars

\* parent microblocks were replayed, a transaction anchored, rewards granted,
\* and a microblock transaction has since moved the context's root on
C9_Witness ==
    /\ anchored_done
    /\ chainstate.staging # <<>>
    /\ anchored_txs # <<>>
    /\ miner_payouts # None
    /\ Len(ok_txs) > ok_at_final
    /\ header.state_index_root # RootHash(clarity_tx)

\* C10: a validator that starts from the same parent state, replays the same
\* parent microblocks, applies the block's transactions in order and grants
\* the same matured rewards reaches the state_index_root of the mined header.
C10_ValidatorReachesMinedRoot ==
    block # None =>
        RootHash(ValidatorReplay(chainstate.staging, Unwrap(block).txs,
                                 chainstate.matured))
            = Unwrap(block).header.state_index_root

\* a finished tenure with parent microblocks, two transactions and rewards
C10_Witness ==
    /\ lifecycle = "Finished"
    /\ block # None
    /\ chainstate.staging # <<>>
    /\ chainstate.matured # None
    /\ Len(Unwrap(block).txs) = 2

\* the microblocks minted since mine_anchored_block
MintedSinceFinal == SubSeq(microblocks, minted_at_final + 1, Len(microblocks))

\* C11: within one tenure the sequence numbers of the microblocks returned by
\* successive successful mine_next_microblock calls are strictly increasing,
\* so no two microblocks of a tenure share a sequence number.
C11_SequencesStrictlyIncreasing ==
    \A i \in 1..Len(microblocks), j \in 1..Len(microblocks) :
        i < j => microblocks[i].header.sequence < microblocks[j].header.sequence

\* C12: the first microblock minted after mine_anchored_block has sequence 0
\* and prev_block equal to the hash of the anchored block returned; every
\* later microblock has the previous microblock's sequence plus 1 and
\* prev_block equal to the previous microblock's hash.
C12_StreamChainsFromAnchoredBlock ==
    anchored_done =>
        /\ MintedSinceFinal # <<>> =>
              /\ MintedSinceFinal[1].header.sequence = 0
              /\ MintedSinceFinal[1].header.prev_block = BlockHash(Unwrap(block).header)
        /\ \A i \in 2..Len(MintedSinceFinal) :
              /\ MintedSinceFinal[i].header.sequence
                    = MintedSinceFinal[i - 1].header.sequence + 1
              /\ MintedSinceFinal[i].header.prev_block
                    = BlockHash(MintedSinceFinal[i - 1].header)

\* two microblocks minted after finalization, the first of them with an
\* empty micro_txs, and a transaction accepted between the two mints
C12_Witness ==
    /\ anchored_done
    /\ Len(MintedSinceFinal) = 2
    /\ MintedSinceFinal[1].txs = <<>>
    /\ MintedSinceFinal[2].txs # <<>>

\* C13: the microblock sequence never wraps: mine_next_microblock fails with
\* MicroblockStreamTooLongError when the previous microblock's sequence is
\* u16::MAX, at most u16::MAX + 1 microblocks are minted in one tenure, and
\* once the error was returned the call that follows a failed mint fails too.
C13_StreamNeverWraps ==
    /\ [](Len(microblocks) <= U16_MAX + 1)
    /\ [][last_call'.op = "mine_next_microblock"
            => /\ prev_microblock_header.sequence = U16_MAX
                    => last_call'.res = "MicroblockStreamTooLongError"
               /\ last_call = Call("mine_next_microblock", "MicroblockStreamTooLongError")
                    => last_call'.res = "MicroblockStreamTooLongError"]_vars

\* C14: every microblock returned carries a signature by miner_privkey that
\* verifies against header.microblock_pubkey_hash; the hash stays the one
\* derived from that key at construction, and the sign/verify check of
\* mine_next_microblock never aborts.
C14_MicroblocksVerify ==
    /\ miner_privkey = MicroblockPrivkey
    /\ header.microblock_pubkey_hash = Hash160(CompressedPubkey(miner_privkey))
    /\ \A i \in 1..Len(microblocks) :
          /\ microblocks[i].header = Sign(microblocks[i].header, miner_privkey)
          /\ Verify(microblocks[i].header, header.microblock_pubkey_hash)
    /\ last_call # Call("mine_next_microblock", "panic")

\* microblocks minted on both sides of a finalization, and the header
\* rewritten by set_parent_microblock since
C14_Witness ==
    /\ anchored_done
    /\ minted_at_final > 0
    /\ MintedSinceFinal # <<>>
    /\ header.parent_microblock = <<"orphaned_mblock">>

RECURSIVE MicroblockTxs(_)
\* the transactions of a list of microblocks, in stream order
MicroblockTxs(mblocks) ==
    IF mblocks = <<>> THEN <<>>
    ELSE Head(mblocks).txs \o MicroblockTxs(Tail(mblocks))

ModeMisfit(tx, done) ==
    IF done THEN tx.anchor_mode = "OnChainOnly" ELSE tx.anchor_mode = "OffChainOnly"

\* C16: a try_mine_tx that passes the size check fails with the anchor-mode
\* error (Error::InvalidStacksTransaction) exactly when the transaction is
\* OffChainOnly while anchored_done is false or OnChainOnly once it is true;
\* a misfit is never accepted, and mode Any is never refused for its mode.
C16_AnchorModeErrors ==
    [][\A tx \in StacksTransaction, vm_ok \in BOOLEAN :
          TryMineTx(tx, vm_ok) =>
            /\ (last_call'.res = "InvalidStacksTransaction")
                  <=> /\ ModeMisfit(tx, anchored_done)
                      /\ bytes_so_far + TxLen(tx) < MAX_EPOCH_SIZE
            /\ ModeMisfit(tx, anchored_done) => last_call'.res # "Ok"
            /\ tx.anchor_mode = "Any"
                  => last_call'.res # "InvalidStacksTransaction"]_vars

\* a mode Any transaction was anchored, and after finalization one was
\* refused for its anchor mode
C16_Witness ==
    /\ anchored_done
    /\ anchored_txs # <<>>
    /\ anchored_txs[1].anchor_mode = "Any"
    /\ last_call = Call("try_mine_tx", "InvalidStacksTransaction")

\* C17: a failed try_mine_tx leaves bytes_so_far, anchored_txs, micro_txs,
\* anchored_done, header, prev_microblock_header and everything else but the
\* returned error as they were, so what follows starts from the state the
\* failed call found.
C17_FailedTryMineTxLeavesState ==
    [][(last_call'.op = "try_mine_tx" /\ last_call'.res # "Ok")
          => /\ last_call'.res \in {"BlockTooBigError", "InvalidStacksTransaction",
                                    "VmError"}
             /\ UNCHANGED <<bytes_so_far, anchored_txs, micro_txs, anchored_done,
                            header, prev_microblock_header>>
             /\ UNCHANGED <<lifecycle, chain_tip, miner_privkey, miner_payouts,
                            clarity_tx, chainstate, block, microblocks, ok_txs,
                            ok_at_final, minted_at_final, chain_vars>>]_vars

\* the VM refused a streamed transaction while another one was pending
C17_Witness ==
    /\ anchored_done
    /\ micro_txs # <<>>
    /\ last_call = Call("try_mine_tx", "VmError")

\* C18: mine_next_microblock produces no microblock while anchored_done is
\* false, so every microblock a builder returns was minted after
\* mine_anchored_block returned the anchored block it chains from.
C18_NoMicroblockBeforeFinalization ==
    /\ [](~anchored_done => microblocks = <<>>)
    /\ [][last_call' = Call("mine_next_microblock", "Ok") => anchored_done]_vars

\* C19: mine_anchored_block called when anchored_done is already true aborts
\* without returning a block and without changing the header, so one builder
\* yields at most one anchored block.
C19_SecondFinalizationAborts ==
    /\ [][(anchored_done /\ last_call'.op = "mine_anchored_block")
            => /\ last_call'.res = "panic"
               /\ lifecycle' = "Aborted"
               /\ header' = header
               /\ block' = block]_vars
    /\ [][block # None => block' = block]_vars

\* a second mine_anchored_block was called on a builder that had returned
\* its block
C19_Witness ==
    /\ anchored_done
    /\ block # None
    /\ lifecycle = "Aborted"
    /\ last_call = Call("mine_anchored_block", "panic")

\* C20: epoch_finish consumes the builder and the context: no operation
\* follows it on that builder, so a tenure commits and renames its trie at
\* most once.
C20_EpochFinishIsLast ==
    /\ [][last_call.op # "epoch_finish"]_vars
    /\ [][chainstate' # chainstate
            => /\ last_call'.op = "epoch_finish"
               /\ lifecycle = "Open"]_vars

\* a tenure that anchored a block, streamed a microblock and was finished
C20_Witness ==
    /\ last_call = Call("epoch_finish", "Ok")
    /\ lifecycle = "Finished"
    /\ block # None
    /\ MintedSinceFinal # <<>>
    /\ {f.path : f \in chainstate.files} = {EpochFinishMinedPath}

\* the burn header hashes a mined block can be filed under: the parent's,
\* the sentinel, and the one of the sortition the block is mined for
BurnHeaderHashes ==
    {chain_tip.burn_header_hash, MINER_BLOCK_BURN_HEADER_HASH, <<"new_burn">>}

C22_MinedExistsSentinelGone ==
    /\ lifecycle = "Finished" =>
          /\ \E f \in chainstate.files :
                f.path = EpochFinishMinedPath /\ f.trie = clarity_tx
          /\ \A f \in chainstate.files : f.path # EpochFinishBlockPath
    /\ lifecycle = "Finished" <=> last_call = Call("epoch_finish", "Ok")
    /\ last_call = Call("epoch_finish", "panic") =>
          /\ lifecycle = "Aborted"
          /\ \E f \in chainstate.files :
                f.path = EpochFinishBlockPath /\ f.trie = clarity_tx

\* a finished tenure whose context had transactions applied
C22_Witness ==
    /\ lifecycle = "Finished"
    /\ ok_txs # <<>>
    /\ \E f \in chainstate.files : f.path = EpochFinishMinedPath

\* C23: after epoch_finish of a tenure that mined its anchored block, the
\* trie stored at the .mined name is the state reached by applying the
\* parent microblocks, the anchored transactions and the matured-reward
\* grant on top of the parent state, whatever the builder was asked to do.
C23_ArtifactIsAnchoredState ==
    (last_call = Call("epoch_finish", "Ok") /\ block # None) =>
        \E f \in chainstate.files :
            /\ f.path = EpochFinishMinedPath
            /\ f.trie = ValidatorReplay(chainstate.staging, Unwrap(block).txs,
                                        chainstate.matured)

\* C24: after a successful epoch_begin, header.parent_microblock and
\* header.parent_microblock_sequence are EMPTY_MICROBLOCK_PARENT_HASH and 0
\* when the loaded stream is empty, otherwise the hash and the sequence of
\* its last microblock; the whole stream is in the returned context, and
\* stays ahead of every transaction of the tenure.
C24_EpochBeginSetsParentMicroblock ==
    /\ (last_call.op = "epoch_begin" /\ lifecycle = "Open") =>
          LET stream == chainstate.staging IN
          /\ header.parent_microblock =
                IF stream = <<>> THEN EMPTY_MICROBLOCK_PARENT_HASH
                ELSE stream[Len(stream)].hash
          /\ header.parent_microblock_sequence =
                IF stream = <<>> THEN 0 ELSE stream[Len(stream)].sequence
          /\ clarity_tx = [i \in 1..Len(stream) |-> <<"mblock", stream[i].hash>>]
          /\ ok_txs = <<>>
    /\ lifecycle = "Open" =>
          /\ Len(clarity_tx) >= Len(chainstate.staging)
          /\ \A i \in 1..Len(chainstate.staging) :
                clarity_tx[i] = <<"mblock", chainstate.staging[i].hash>>

\* epoch_begin has just succeeded on a parent that streamed microblocks
C24_Witness ==
    /\ last_call.op = "epoch_begin"
    /\ lifecycle = "Open"
    /\ chainstate.staging # <<>>
    /\ header.parent_microblock = chainstate.staging[Len(chainstate.staging)].hash

\* C25: when the replay of the parent stream fails, epoch_begin returns
\* InvalidStacksMicroblock with the hash of the offending microblock and no
\* context, so no transaction is mined, and header.parent_microblock and
\* header.parent_microblock_sequence are as before the call.
C25_RejectedStreamLeavesHeader ==
    /\ [][(last_call'.op = "epoch_begin" /\ lifecycle' = "Fresh"
             /\ last_call'.res # "DBError")
            => /\ \E i \in 1..Len(chainstate.staging) :
                     last_call'.res
                       = <<"InvalidStacksMicroblock", chainstate.staging[i].hash>>
               /\ header'.parent_microblock = header.parent_microblock
               /\ header'.parent_microblock_sequence
                     = header.parent_microblock_sequence
               /\ clarity_tx' = <<>>]_vars
    /\ [](lifecycle = "Fresh" => ok_txs = <<>> /\ clarity_tx = <<>>)

\* the stream was rejected on a builder whose parent microblock had been
\* assigned by hand
C25_Witness ==
    /\ last_call.op = "epoch_begin"
    /\ lifecycle = "Fresh"
    /\ last_call.res # "DBError"
    /\ last_call.res = <<"InvalidStacksMicroblock", ParentMblock(1).hash>>
    /\ header.parent_microblock = <<"orphaned_mblock">>

\* C26: mine_anchored_block makes the matured-rewards grant exactly when
\* miner_payouts is present, which is what the tenure's epoch_begin resolved,
\* whether or not anchored_txs is empty; when the grant fails the call
\* aborts and returns no block.
C26_GrantIffPayouts ==
    /\ [](lifecycle = "Open" => miner_payouts = chainstate.matured)
    /\ [][\A rewards_ok \in BOOLEAN :
            (MineAnchoredBlock(rewards_ok) /\ ~anchored_done) =>
              IF miner_payouts # None /\ ~rewards_ok
              THEN /\ last_call'.res = "panic"
                   /\ lifecycle' = "Aborted"
                   /\ block' = None
                   /\ ~anchored_done'
              ELSE /\ last_call'.res = "Ok"
                   /\ block' # None
                   /\ clarity_tx' =
                         IF miner_payouts # None
                         THEN Append(clarity_tx, <<"rewards", Unwrap(miner_payouts)>>)
                         ELSE clarity_tx]_vars

\* a block without transactions was mined and the matured rewards granted
C26_Witness ==
    /\ last_call = Call("mine_anchored_block", "Ok")
    /\ anchored_txs = <<>>
    /\ miner_payouts # None
    /\ clarity_tx # <<>>
    /\ clarity_tx[Len(clarity_tx)] = <<"rewards", MaturedRewards>>

\* the tenures of the chain so far in which a reward of miner m matured
MaturedTenures(m) ==
    {i \in (MINER_REWARD_MATURITY + MINER_REWARD_WINDOW)..(Len(sortition_winners) - 1) :
        sortition_winners[i - MINER_REWARD_MATURITY - MINER_REWARD_WINDOW + 1] = m}

\* C27: over a chain of tenures, tenure i credits the coinbase of the
\* winner of block i - MINER_REWARD_MATURITY - MINER_REWARD_WINDOW and nothing
\* before that age; a miner alone on the chain holds 500000000 times
\* max(0, i - (MINER_REWARD_MATURITY + MINER_REWARD_WINDOW) + 1) after
\* tenure i, and of two miners each holds the coinbases of the blocks it won.
C27_RewardMaturity ==
    LET n   == Len(sortition_winners)
        age == MINER_REWARD_MATURITY + MINER_REWARD_WINDOW
    IN /\ \A m \in Miners :
             miner_status[m] = 500000000 * Cardinality(MaturedTenures(m))
       /\ n <= age => \A m \in Miners : miner_status[m] = 0
       /\ (n > 0 /\ \A j \in 1..n : sortition_winners[j] = "miner") =>
             miner_status["miner"]
                = 500000000 * (IF n - 1 - age + 1 > 0 THEN n - 1 - age + 1 ELSE 0)

\* a chain on which both miners have had rewards mature
C27_Witness ==
    /\ Len(sortition_winners) = MaxTenures
    /\ miner_status["miner"] > 500000000
    /\ miner_status["miner_2"] > 0

\* C28: no operation but epoch_finish commits the context or creates,
\* renames or removes a trie file: until epoch_finish runs, and on a builder
\* abandoned before it, the chainstate directory is as the tenure found it,
\* the .mined artifact of an earlier tenure included.
C28_OnlyEpochFinishPersists ==
    last_call.op # "epoch_finish" => chainstate.files = InitialFiles(chain_tip)

\* a tenure that has mined its block and a microblock, not yet finished, in
\* a chainstate that holds an earlier artifact
C28_Witness ==
    /\ lifecycle = "Open"
    /\ anchored_done
    /\ MintedSinceFinal # <<>>
    /\ ok_txs # <<>>
    /\ chainstate.files = {[path |-> SentinelMinedPath, trie |-> OldTrie]}

\* C29: a builder returned by from_parent or first has anchored_done false,
\* no anchored and no streamed transactions, no miner_payouts, bytes_so_far
\* equal to the serialized header length and microblock_pubkey_hash equal to
\* the hash of the compressed public key of the microblock private key; one
\* returned by first has parent_block = EMPTY_MICROBLOCK_PARENT_HASH and a
\* parent tip of height 0 without microblock tail.
C29_FreshBuilder ==
    last_call.op \in {"first", "from_parent"} =>
        /\ ~anchored_done
        /\ anchored_txs = <<>>
        /\ micro_txs = <<>>
        /\ miner_payouts = None
        /\ bytes_so_far = HeaderLen
        /\ header.microblock_pubkey_hash = Hash160(CompressedPubkey(MicroblockPrivkey))
        /\ miner_privkey = MicroblockPrivkey
        /\ last_call.op = "from_parent" =>
              header.parent_block = BlockHash(chain_tip.anchored_header)
        /\ last_call.op = "first" =>
              /\ header.parent_block = EMPTY_MICROBLOCK_PARENT_HASH
              /\ chain_tip.block_height = 0
              /\ chain_tip.microblock_tail = None

\* a builder as first returned it
C29_Witness ==
    /\ last_call = Call("first", "Ok")
    /\ lifecycle = "Fresh"
    /\ header.parent_block = EMPTY_MICROBLOCK_PARENT_HASH

\* C30 as stated: the header changes only in mine_anchored_block, which
\* writes tx_merkle_root, state_index_root and microblock_pubkey_hash;
\* parent_block, parent_microblock and parent_microblock_sequence keep the
\* values the constructor gave them.
C30_HeaderFixedAtConstruction ==
    [][/\ header'.parent_block = header.parent_block
       /\ header'.parent_microblock = header.parent_microblock
       /\ header'.parent_microblock_sequence = header.parent_microblock_sequence
       /\ header' # header => last_call'.op = "mine_anchored_block"]_vars

\* C30 amended: tx_merkle_root and state_index_root are written by
\* mine_anchored_block alone; parent_block and microblock_pubkey_hash keep
\* their construction values; parent_microblock and
\* parent_microblock_sequence are written by epoch_begin and by
\* set_parent_microblock, before or after finalization.
C30_HeaderWriters ==
    [][/\ header'.parent_block = header.parent_block
       /\ header'.microblock_pubkey_hash = header.microblock_pubkey_hash
       /\ (\/ header'.tx_merkle_root # header.tx_merkle_root
           \/ header'.state_index_root # header.state_index_root)
             => (last_call'.op = "mine_anchored_block" /\ ~anchored_done)
       /\ (\/ header'.parent_microblock # header.parent_microblock
           \/ header'.parent_microblock_sequence # header.parent_microblock_sequence)
             => last_call'.op \in {"epoch_begin", "set_parent_microblock"}]_vars

\* the builder's parent microblock was reassigned after its block was mined
C30_Witness ==
    /\ anchored_done
    /\ last_call.op = "set_parent_microblock"
    /\ header.parent_microblock # Unwrap(block).header.parent_microblock

\* C31: a mine_next_microblock that fails with the stream-too-long error
\* leaves micro_txs, prev_microblock_header and bytes_so_far as they were: the
\* pending microblock transactions are neither cleared nor dropped.
C31_StreamTooLongKeepsPending ==
    [][(/\ last_call'.op = "mine_next_microblock"
        /\ last_call'.res = "MicroblockStreamTooLongError")
          => /\ micro_txs' = micro_txs
             /\ prev_microblock_header' = prev_microblock_header
             /\ bytes_so_far' = bytes_so_far
             /\ microblocks' = microblocks]_vars

\* a mint has just failed on a full stream while transactions were pending
C31_Witness ==
    /\ last_call = Call("mine_next_microblock", "MicroblockStreamTooLongError")
    /\ micro_txs # <<>>
    /\ Len(MintedSinceFinal) = U16_MAX + 1

\* C32: epoch_finish is accepted only in state Open with anchored_done = true:
\* no tenure commits its trie and publishes a .mined artifact unless
\* mine_anchored_block has completed in that tenure.
C32_EpochFinishNeedsAnchoredBlock ==
    last_call.op = "epoch_finish" => /\ anchored_done
                                     /\ block # None

\* C33: epoch_finish commits, then renames, and is not crash-consistent: when
\* it is interrupted between the two, the tenure's trie is at the sentinel
\* path and the .mined path holds what it held before, not this tenure's
\* trie; in no state is one trie present at both paths.
C33_CommitThenRename ==
    /\ lifecycle = "Crashed" =>
          /\ last_call = Call("epoch_finish", "crashed")
          /\ chainstate.files =
                WriteFile(InitialFiles(chain_tip), EpochFinishBlockPath, clarity_tx)
          /\ \A f \in chainstate.files :
                f.path = EpochFinishMinedPath => f.trie # clarity_tx
    /\ \A f, g \in chainstate.files :
          f.path = EpochFinishBlockPath /\ g.path = EpochFinishMinedPath
              => f.trie # g.trie

\* an interrupted epoch_finish of a tenure that mined a block with
\* transactions, in a directory that holds an earlier artifact
C33_Witness ==
    /\ lifecycle = "Crashed"
    /\ block # None
    /\ ok_txs # <<>>
    /\ \E f \in chainstate.files : f.path = EpochFinishMinedPath

\* C34: bytes_so_far never decreases, neither at mine_anchored_block nor at
\* mine_next_microblock, so the tenure has one size budget: the header plus
\* all anchored transactions plus the transactions of every microblock and of
\* the pending list stay strictly below MAX_EPOCH_SIZE, and a transaction
\* length refused with BlockTooBigError is refused for the rest of the tenure.
C34_OneBudgetPerTenure ==
    /\ [](HeaderLen + SumLen(anchored_txs) + SumLen(MicroblockTxs(microblocks))
              + SumLen(micro_txs) < MAX_EPOCH_SIZE)
    /\ [][bytes_so_far' >= bytes_so_far]_vars
    /\ [][\A tx \in StacksTransaction :
             BlockTooBig(bytes_so_far, TxLen(tx))
                 => BlockTooBig(bytes_so_far', TxLen(tx))]_vars

\* a transaction was refused for its size after the anchored block and a
\* microblock had each taken a transaction out of the budget
C34_Witness ==
    /\ last_call = Call("try_mine_tx", "BlockTooBigError")
    /\ block # None
    /\ anchored_txs # <<>>
    /\ \E i \in 1..Len(microblocks) : microblocks[i].txs # <<>>
    /\ micro_txs = <<>>

\* C35: try_mine_tx tests the size, then the anchor mode, then runs the VM: a
\* transaction that is oversize fails with BlockTooBigError whatever its
\* anchor mode, one that fits but has the wrong mode fails with
\* InvalidStacksTransaction, in both cases whatever the VM would have
\* answered, and the execution context is as it was.
C35_SizeThenModeThenVm ==
    [][\A tx \in StacksTransaction, vm_ok \in BOOLEAN :
          TryMineTx(tx, vm_ok) =>
            /\ BlockTooBig(bytes_so_far, TxLen(tx))
                  => last_call'.res = "BlockTooBigError"
            /\ (~BlockTooBig(bytes_so_far, TxLen(tx)) /\ ModeMisfit(tx, anchored_done))
                  => last_call'.res = "InvalidStacksTransaction"
            /\ last_call'.res = "VmError"
                  => /\ ~vm_ok
                     /\ ~BlockTooBig(bytes_so_far, TxLen(tx))
                     /\ ~ModeMisfit(tx, anchored_done)
            /\ last_call'.res \in {"BlockTooBigError", "InvalidStacksTransaction"}
                  => clarity_tx' = clarity_tx]_vars

\* the budget is used up, so the last refusal for size also met
\* transactions of the wrong anchor mode
C35_Witness ==
    /\ last_call = Call("try_mine_tx", "BlockTooBigError")
    /\ bytes_so_far = MAX_EPOCH_SIZE - 1
    /\ \E tx \in StacksTransaction : ModeMisfit(tx, anchored_done)

\* the parent microblock and its sequence epoch_begin takes from a stream
ReplayedParent(stream) ==
    IF stream = <<>> THEN <<EMPTY_MICROBLOCK_PARENT_HASH, 0>>
    ELSE <<stream[Len(stream)].hash, stream[Len(stream)].sequence>>

\* the parent microblock and its sequence in a header
ParentOf(hdr) == <<hdr.parent_microblock, hdr.parent_microblock_sequence>>

\* C36: a successful epoch_begin overwrites header.parent_microblock and
\* parent_microblock_sequence whatever they were, with what the replayed
\* stream gives; from then on only set_parent_microblock changes them, the
\* anchored block takes them as they are when mine_anchored_block runs, and
\* no later call changes the block that was mined.
C36_EpochBeginOverwritesParent ==
    [][/\ (last_call'.op = "epoch_begin" /\ lifecycle = "Fresh" /\ lifecycle' = "Open")
            => ParentOf(header') = ReplayedParent(chainstate.staging)
       /\ (lifecycle = "Open" /\ ParentOf(header') # ParentOf(header))
            => /\ last_call'.op = "set_parent_microblock"
               /\ ParentOf(header') \in AssignedParents
       /\ (block = None /\ block' # None)
            => /\ last_call' = Call("mine_anchored_block", "Ok")
               /\ ParentOf(Unwrap(block').header) = ParentOf(header)
               /\ ParentOf(header) \in {ReplayedParent(chainstate.staging)}
                                           \cup AssignedParents
       /\ block # None => block' = block]_vars

\* the parent tip has a microblock tail, epoch_begin replayed an empty stream,
\* the anchored block was mined without a parent microblock, and a parent
\* was assigned by hand afterwards
C36_Witness ==
    /\ block # None
    /\ chain_tip.microblock_tail # None
    /\ ParentOf(Unwrap(block).header) = <<EMPTY_MICROBLOCK_PARENT_HASH, 0>>
    /\ last_call.op = "set_parent_microblock"
    /\ ParentOf(header) \in AssignedParents

GrantPositions == {i \in 1..Len(clarity_tx) : clarity_tx[i][1] = "rewards"}

\* C38: within a tenure the matured-reward grant is applied to the context
\* at most once: not by epoch_begin nor by anything before
\* mine_anchored_block, and by mine_anchored_block right after the last
\* anchored transaction, before the state root is read and so before every
\* microblock transaction of the tenure.
C38_GrantOnceAtFinalization ==
    LET replayed == Len(chainstate.staging) IN
    /\ Cardinality(GrantPositions) <= 1
    /\ ~anchored_done => GrantPositions = {}
    /\ anchored_done =>
          LET granted == replayed + ok_at_final + 1 IN
          /\ GrantPositions = IF miner_payouts # None THEN {granted} ELSE {}
          /\ \A k \in 1..ok_at_final :
                clarity_tx[replayed + k] = <<"tx", anchored_txs[k].txid>>
          /\ ok_at_final = Len(anchored_txs)
          /\ header.state_index_root =
                RootHash(SubSeq(clarity_tx, 1,
                                IF miner_payouts # None THEN granted
                                ELSE replayed + ok_at_final))
          /\ \A i \in 1..Len(clarity_tx) :
                (clarity_tx[i][1] = "tx" /\ i > replayed + ok_at_final)
                    => GrantPositions \subseteq 1..(i - 1)

\* rewards were granted in a tenure with parent microblocks, an anchored
\* transaction and a microblock transaction processed after the grant
C38_Witness ==
    /\ anchored_done
    /\ chainstate.staging # <<>>
    /\ anchored_txs # <<>>
    /\ GrantPositions # {}
    /\ Len(clarity_tx) > Len(chainstate.staging) + ok_at_final + 1

====
